---- MODULE Spec2Model ----
(***************************************************************************)
(* Weather Intelligence Actor: the fetch / retry / batch-upsert pipeline.  *)
(*                                                                         *)
(*   main.py             main(): windows over the ward list, gather,       *)
(*                       collect, write, throttle, summary                 *)
(*   weather_client.py   fetch_ward_weather(): permit, 3 attempts, backoff *)
(*                       _parse_response(): the normalizer                 *)
(*   supabase_client.py  upsert_weather_batch(), upsert_alerts()           *)
(*                                                                         *)
(* The module has three entry points: main() (the Actor run), and the two  *)
(* writers called on their own with a list of records, which is how their  *)
(* chunk loops are exercised independently of what main() hands them.      *)
(*                                                                         *)
(* Python values: an Optional value is a sequence of length 0 (None) or 1. *)
(* A dict is a TLA+ record; d.get(k) is Get(d, k), d[k] on a missing key   *)
(* raises KeyError.                                                        *)
(***************************************************************************)
EXTENDS Integers, Sequences, FiniteSets, TLC

\* ------------------------------------------------------------------ bounds
\* Largest ward list returned by the ward source.
MaxWards == 3
\* Largest configured batchSize (window size and permit pool size).
MaxBatchSize == 2
\* Longest record list handed to a writer that is called on its own.
MaxRows == 4

\* ------------------------------------------------------- program constants
\* supabase_client.py:96 and :153  rows per store call. The source value is
\* 500; it is scaled down so that a bounded list spans several chunks.
chunk_size == 2

\* ------------------------------------------------------- python primitives
None == <<>>
Some(v) == <<v>>
EmptyDict == <<>>

\* d.get(k)
Get(d, k) == IF k \in DOMAIN d THEN Some(d[k]) ELSE None
\* d.get(k, default)
GetOr(d, k, default) == IF k \in DOMAIN d THEN d[k] ELSE default

Min(a, b) == IF a < b THEN a ELSE b

RECURSIVE Pow2(_)
Pow2(n) == IF n = 0 THEN 1 ELSE 2 * Pow2(n - 1)

\* rows[i : i + n] (0-based slice of a sequence)
Slice(s, i, n) == SubSeq(s, i + 1, Min(i + n, Len(s)))

\* ------------------------------------------------------- provider payloads
\* Two provider bodies of a 200 response: a full one without alerts, and a
\* sparse one (no forecast, no humidity, night) carrying one alert.
PayloadClear ==
    [current |-> [temp_c |-> 21, wind_kph |-> 12, humidity |-> 40, is_day |-> 1,
                  precip_mm |-> 0,
                  condition |-> [text |-> "Sunny", icon |-> "113.png"]],
     forecast |-> [forecastday |->
                    << [date |-> "day1",
                        day |-> [maxtemp_c |-> 25, mintemp_c |-> 14, avgtemp_c |-> 19,
                                 maxwind_kph |-> 20, totalprecip_mm |-> 0,
                                 avghumidity |-> 45,
                                 condition |-> [text |-> "Sunny", icon |-> "113.png"],
                                 daily_chance_of_rain |-> 0,
                                 daily_chance_of_snow |-> 0, uv |-> 7],
                        astro |-> [sunrise |-> "06:00", sunset |-> "18:30"]] >>],
     alerts |-> [alert |-> <<>>]]

PayloadAlert ==
    [current |-> [temp_c |-> 9, wind_kph |-> 40, is_day |-> 0, precip_mm |-> 8,
                  condition |-> [text |-> "Rain", icon |-> "302.png"]],
     alerts |-> [alert |->
                  << [event |-> "Flood", headline |-> "Flood warning",
                      desc |-> "Heavy rain", severity |-> "Severe"] >>]]

Payloads == {PayloadClear, PayloadAlert}

\* ---------------------------------------------------------- the normalizer
ForecastDay(day_data) ==
    LET day_info == GetOr(day_data, "day", EmptyDict)
        astro == GetOr(day_data, "astro", EmptyDict)
        day_condition == GetOr(day_info, "condition", EmptyDict)
    IN [date |-> Get(day_data, "date"),
        maxtemp_c |-> Get(day_info, "maxtemp_c"),
        mintemp_c |-> Get(day_info, "mintemp_c"),
        avgtemp_c |-> Get(day_info, "avgtemp_c"),
        maxwind_kph |-> Get(day_info, "maxwind_kph"),
        totalprecip_mm |-> Get(day_info, "totalprecip_mm"),
        avghumidity |-> Get(day_info, "avghumidity"),
        condition_text |-> Get(day_condition, "text"),
        condition_icon |-> Get(day_condition, "icon"),
        daily_chance_of_rain |-> Get(day_info, "daily_chance_of_rain"),
        daily_chance_of_snow |-> Get(day_info, "daily_chance_of_snow"),
        uv |-> Get(day_info, "uv"),
        sunrise |-> Get(astro, "sunrise"),
        sunset |-> Get(astro, "sunset")]

ParsedAlert(alert) ==
    [event |-> Get(alert, "event"),
     headline |-> Get(alert, "headline"),
     description |-> Get(alert, "desc"),
     severity |-> Get(alert, "severity"),
     urgency |-> Get(alert, "urgency"),
     areas |-> Get(alert, "areas"),
     category |-> Get(alert, "category"),
     certainty |-> Get(alert, "certainty"),
     instruction |-> Get(alert, "instruction"),
     effective |-> Get(alert, "effective"),
     expires |-> Get(alert, "expires")]

_parse_response(data, ward_code) ==
    LET current == GetOr(data, "current", EmptyDict)
        forecast == GetOr(data, "forecast", EmptyDict)
        alerts_data == GetOr(data, "alerts", EmptyDict)
        condition == GetOr(current, "condition", EmptyDict)
        days == GetOr(forecast, "forecastday", <<>>)
        raw_alerts == GetOr(alerts_data, "alert", <<>>)
        forecast_days == [j \in 1..Len(days) |-> ForecastDay(days[j])]
        alerts == [j \in 1..Len(raw_alerts) |-> ParsedAlert(raw_alerts[j])]
    IN [ward_code |-> ward_code,
        temperature_c |-> Get(current, "temp_c"),
        condition_text |-> Get(condition, "text"),
        condition_icon |-> Get(condition, "icon"),
        wind_kph |-> Get(current, "wind_kph"),
        humidity |-> Get(current, "humidity"),
        is_day |-> (Get(current, "is_day") = Some(1)),
        precip_mm |-> Get(current, "precip_mm"),
        forecast_days |-> forecast_days,
        alerts |-> alerts,
        alerts_summary |-> IF Len(alerts) > 0 THEN Some(alerts) ELSE None,
        raw |-> data]

\* ------------------------------------------------------------------- state
VARIABLES
    entry,            \* the function the caller invoked
    pc,               \* position of main() or of the writer that is running
    api_key,          \* WEATHER_API_KEY is set
    supabase_env,     \* SUPABASE_URL and SUPABASE_SERVICE_KEY are set
    raw_input,        \* the Actor input
    wards,            \* main: the ward list
    semaphore,        \* value of the asyncio.Semaphore
    tasks,            \* one fetch_ward_weather call per ward
    batch_start,      \* main: loop variable
    batch_end,        \* main: end of the current window
    batch_results,    \* main: the current window's records
    all_results,      \* main
    failed_count,     \* main
    throttle_sleeps,  \* inter-window sleeps taken
    dataset,          \* summaries pushed with Actor.push_data
    weather_results,  \* argument of the running writer
    rows,             \* upsert_weather_batch: rows built
    chunk_i,          \* loop variable i of the running chunk loop
    upserted,         \* upsert_weather_batch
    alert_rows,       \* upsert_alerts
    to_delete,        \* upsert_alerts: ward codes still to be deleted
    inserted,         \* upsert_alerts
    retval,           \* value returned by the last writer call (Optional)
    weather_cache,    \* store table ai_intelligence.weather_cache
    weather_alerts,   \* store table ai_intelligence.weather_alerts
    store_log         \* the write calls issued to the store, in order

vars == <<entry, pc, api_key, supabase_env, raw_input, wards, semaphore, tasks,
          batch_start, batch_end, batch_results, all_results, failed_count,
          throttle_sleeps, dataset, weather_results, rows, chunk_i, upserted,
          alert_rows, to_delete, inserted, retval, weather_cache,
          weather_alerts, store_log>>

mainVars == <<wards, semaphore, tasks, batch_start, batch_end, batch_results,
              all_results, failed_count, throttle_sleeps, dataset>>
envVars == <<entry, api_key, supabase_env, raw_input>>
writerVars == <<weather_results, rows, chunk_i, upserted, alert_rows, to_delete,
                inserted, retval>>
storeVars == <<weather_cache, weather_alerts, store_log>>

\* ------------------------------------------------------------ configuration
\* main.py:25  batch_size = raw_input.get("batchSize", 50)
batch_size_off_by_one == raw_input.batchSize + 1
batch_size == raw_input.batchSize
\* main.py:26
delay_ms == raw_input.delayBetweenBatchesMs
\* main.py:59
total_wards == Len(wards)

\* range(3) in fetch_ward_weather
MaxAttempts_one_more == 3 + 1
MaxAttempts == 3

\* ------------------------------------------------------------------- wards
\* A row of weather_cache as the ward source returns it.
WardRow(i) == [ward_code |-> i, latitude |-> -(25 + i), longitude |-> 27 + i]

\* get_all_wards: the (ward_code, latitude, longitude) tuples of the table.
get_all_wards(table) ==
    [i \in 1..Cardinality(table) |->
        LET r == CHOOSE x \in table : x.ward_code = i
        IN [ward_code |-> r.ward_code, latitude |-> r.latitude,
            longitude |-> r.longitude]]

\* A record that also carries the coordinates of its ward.
WithCoordinates(w) ==
    [k \in DOMAIN w \cup {"latitude", "longitude"} |->
        IF k = "latitude" THEN WardRow(w.ward_code).latitude
        ELSE IF k = "longitude" THEN WardRow(w.ward_code).longitude
        ELSE w[k]]

\* Record lists a caller can hand to a writer: ward codes 1..n, each record
\* the normalizer's output for some payload, with or without coordinates.
InputLists ==
    UNION {
        { [i \in 1..n |->
              IF f[i][2] THEN WithCoordinates(_parse_response(f[i][1], i))
              ELSE _parse_response(f[i][1], i)]
          : f \in [1..n -> Payloads \X BOOLEAN] }
        : n \in 0..MaxRows }

\* An alert row left in weather_alerts by an earlier run.
StaleAlert(code) ==
    [ward_code |-> code, event |-> Some("Storm"), headline |-> Some("Old storm"),
     description |-> None, severity |-> None, urgency |-> None, areas |-> None,
     category |-> None, certainty |-> None, instruction |-> None,
     effective |-> None, expires |-> None]

StaleTables == {<<>>, <<StaleAlert(1)>>, <<StaleAlert(1), StaleAlert(2)>>}

IdleTask == [pc |-> "idle", attempt |-> 0, responses |-> <<>>, sleeps |-> <<>>,
             result |-> None]

\* ------------------------------------------------------------------- Init
InitMain ==
    /\ entry = "main"
    /\ pc = "start"
    /\ api_key \in BOOLEAN
    /\ supabase_env \in BOOLEAN
    /\ raw_input \in [batchSize : 1..MaxBatchSize,
                      delayBetweenBatchesMs : {0, 200}]
    /\ \E n \in 0..MaxWards : weather_cache = {WardRow(i) : i \in 1..n}
    /\ weather_alerts = <<>>
    /\ weather_results = <<>>

InitWriter ==
    /\ entry \in {"upsert_weather_batch", "upsert_alerts"}
    /\ pc = IF entry = "upsert_weather_batch" THEN "uwb_build" ELSE "ua_collect"
    /\ api_key = TRUE
    /\ supabase_env = TRUE
    /\ raw_input = [batchSize |-> 1, delayBetweenBatchesMs |-> 0]
    /\ weather_results \in InputLists
    /\ weather_cache = {WardRow(i) : i \in 1..Len(weather_results)}
    /\ weather_alerts \in IF entry = "upsert_alerts" THEN StaleTables ELSE {<<>>}

Init ==
    /\ InitMain \/ InitWriter
    /\ wards = <<>>
    /\ semaphore = 0
    /\ tasks = <<>>
    /\ batch_start = 0
    /\ batch_end = 0
    /\ batch_results = <<>>
    /\ all_results = <<>>
    /\ failed_count = 0
    /\ throttle_sleeps = 0
    /\ dataset = <<>>
    /\ rows = <<>>
    /\ chunk_i = 0
    /\ upserted = 0
    /\ alert_rows = <<>>
    /\ to_delete = {}
    /\ inserted = 0
    /\ retval = None
    /\ store_log = <<>>

\* ------------------------------------------------------- main(): start-up
\* main.py:35-46  missing credentials: log, Actor.exit(exit_code=1), return
ValidateEnv ==
    /\ entry = "main" /\ pc = "start"
    /\ pc' = IF api_key /\ supabase_env THEN "get_wards" ELSE "exited"
    /\ UNCHANGED <<envVars, mainVars, writerVars, storeVars>>

\* main.py:51-66  read the ward list; an empty list ends the run with exit
\* code 1; otherwise the permit pool and the counters are created.
GetWards ==
    /\ entry = "main" /\ pc = "get_wards"
    /\ wards' = get_all_wards(weather_cache)
    /\ IF wards' = <<>>
       THEN /\ pc' = "exited"
            /\ UNCHANGED <<semaphore, tasks>>
       ELSE /\ pc' = "loop"
            /\ semaphore' = batch_size
            /\ tasks' = [i \in 1..Len(wards') |-> IdleTask]
    /\ UNCHANGED <<envVars, batch_start, batch_end, batch_results, all_results,
                   failed_count, throttle_sleeps, dataset, writerVars, storeVars>>

\* ------------------------------------------------------ main(): the window
\* main.py:71
BatchEnd_drop_last(start) == Min(start + batch_size, total_wards) - 1
BatchEnd_one_more(start) == Min(start + batch_size + 1, total_wards)
BatchEnd(start) == Min(start + batch_size, total_wards)
\* main.py:72  the ward indices (1-based) of wards[batch_start:batch_end]
Batch == (batch_start + 1)..batch_end
\* main.py:73
batch_num == (batch_start \div batch_size) + 1
\* main.py:74
total_batches == (total_wards + batch_size - 1) \div batch_size

\* main.py:70-90  one loop iteration begins: slice the window and create one
\* fetch_ward_weather coroutine per ward of it; gather schedules them all.
StartBatch ==
    /\ entry = "main" /\ pc = "loop"
    /\ batch_start < total_wards
    /\ batch_end' = BatchEnd(batch_start)
    /\ tasks' = [i \in DOMAIN tasks |->
                    IF i \in (batch_start + 1)..batch_end'
                    THEN [IdleTask EXCEPT !.pc = "acquire"]
                    ELSE tasks[i]]
    /\ pc' = "gather"
    /\ UNCHANGED <<envVars, wards, semaphore, batch_start, batch_results,
                   all_results, failed_count, throttle_sleeps, dataset,
                   writerVars, storeVars>>

\* ------------------------------------------------------ fetch_ward_weather
Outcomes == {"200", "429", "other", "error"}

\* weather_client.py:45 and :56  wait = 2 ** (attempt + 1)
Backoff_half(attempt) == Pow2(attempt)
Backoff(attempt) == Pow2(attempt + 1)

\* weather_client.py:44  the status that is retried
IsRateLimited_or_other(outcome) == outcome \in {"429", "other"}
IsRateLimited(outcome) == outcome = "429"

\* weather_client.py:55  a transport failure is retried while attempt < 2
RetriesLeft(attempt) == attempt < 2

\* weather_client.py:36  async with semaphore: exit. Every return inside the
\* block, and the end of the block, gives the permit back.
Release_leak(sem) == sem
Release(sem) == sem + 1

\* The fetch coroutines run while main() is suspended in gather (main.py:90).
TasksCanRun == entry = "main" /\ pc = "gather"

\* weather_client.py:36  async with semaphore: enter
Acquire(i) ==
    /\ TasksCanRun
    /\ tasks[i].pc = "acquire"
    /\ semaphore > 0
    /\ semaphore' = semaphore - 1
    /\ tasks' = [tasks EXCEPT ![i].pc = "request"]
    /\ UNCHANGED <<envVars, pc, wards, batch_start, batch_end, batch_results,
                   all_results, failed_count, throttle_sleeps, dataset,
                   writerVars, storeVars>>

\* weather_client.py:38-61  one attempt: the GET and what the code does with
\* its outcome ("error" is aiohttp.ClientError or asyncio.TimeoutError, the
\* other outcomes are the response status). A return leaves the async with
\* block and releases the permit.
Attempt(i, outcome, data) ==
    /\ TasksCanRun
    /\ tasks[i].pc = "request"
    /\ LET t == [tasks[i] EXCEPT !.responses = Append(@, outcome)]
           sleep == [t EXCEPT !.pc = "sleep",
                              !.sleeps = Append(@, Backoff(t.attempt))]
           return(r) == [t EXCEPT !.pc = "done", !.result = r]
       IN IF outcome = "error"
          THEN (IF RetriesLeft(t.attempt)
                THEN /\ tasks' = [tasks EXCEPT ![i] = sleep]
                     /\ UNCHANGED semaphore
                ELSE /\ tasks' = [tasks EXCEPT ![i] = return(None)]
                     /\ semaphore' = Release(semaphore))
          ELSE IF outcome = "200"
          THEN /\ tasks' = [tasks EXCEPT ![i] =
                              return(Some(_parse_response(data, wards[i].ward_code)))]
               /\ semaphore' = Release(semaphore)
          ELSE IF IsRateLimited(outcome)
          THEN /\ tasks' = [tasks EXCEPT ![i] = sleep]
               /\ UNCHANGED semaphore
          ELSE /\ tasks' = [tasks EXCEPT ![i] = return(None)]
               /\ semaphore' = Release(semaphore)
    /\ UNCHANGED <<envVars, pc, wards, batch_start, batch_end, batch_results,
                   all_results, failed_count, throttle_sleeps, dataset,
                   writerVars, storeVars>>

\* weather_client.py:47-48, :58, :37, :63  the backoff sleep ends and the for
\* loop takes its next attempt, or is exhausted and the call returns None.
Wake(i) ==
    /\ TasksCanRun
    /\ tasks[i].pc = "sleep"
    /\ IF tasks[i].attempt + 1 < MaxAttempts
       THEN /\ tasks' = [tasks EXCEPT ![i].attempt = @ + 1, ![i].pc = "request"]
            /\ UNCHANGED semaphore
       ELSE /\ tasks' = [tasks EXCEPT ![i].attempt = @ + 1, ![i].pc = "done",
                                       ![i].result = None]
            /\ semaphore' = Release(semaphore)
    /\ UNCHANGED <<envVars, pc, wards, batch_start, batch_end, batch_results,
                   all_results, failed_count, throttle_sleeps, dataset,
                   writerVars, storeVars>>

\* ----------------------------------------------- main(): gather and collect
\* main.py:90  gather returns once every call of the window has returned
GatherDone_any == \E i \in Batch : tasks[i].pc = "done"
GatherDone == \A i \in Batch : tasks[i].pc = "done"

\* main.py:90  results, in the order of the window
Results == [k \in 1..(batch_end - batch_start) |-> tasks[batch_start + k].result]

\* main.py:93  [r for r in results if r is not None]
BatchResults(results) ==
    LET kept == SelectSeq(results, LAMBDA r : r # None)
    IN [k \in 1..Len(kept) |-> kept[k][1]]

\* main.py:94
BatchFailed_none(results, kept) == 0
BatchFailed(results, kept) == Len(results) - Len(kept)

\* main.py:90-103  gather returns; the window's records are collected and
\* counted, and the write step is entered when there is a record to write.
CollectResults ==
    /\ entry = "main" /\ pc = "gather"
    /\ GatherDone
    /\ batch_results' = BatchResults(Results)
    /\ failed_count' = failed_count + BatchFailed(Results, batch_results')
    /\ all_results' = all_results \o batch_results'
    /\ IF batch_results' # <<>>
       THEN /\ pc' = "uwb_build"
            /\ weather_results' = batch_results'
       ELSE /\ pc' = "advance"
            /\ UNCHANGED weather_results
    /\ UNCHANGED <<envVars, wards, semaphore, tasks, batch_start, batch_end,
                   throttle_sleeps, dataset, rows, chunk_i, upserted, alert_rows,
                   to_delete, inserted, retval, storeVars>>

\* ---------------------------------------------------- upsert_weather_batch
\* supabase_client.py:74-86  the keys read from each record with w[...]
RowReadKeys ==
    {"ward_code", "latitude", "longitude", "temperature_c", "condition_text",
     "condition_icon", "wind_kph", "humidity", "is_day", "precip_mm",
     "forecast_days", "alerts_summary", "raw"}

\* supabase_client.py:73-89
BuildRow(w) ==
    [ward_code |-> w["ward_code"],
     latitude |-> w["latitude"],
     longitude |-> w["longitude"],
     temperature_c |-> w["temperature_c"],
     condition_text |-> w["condition_text"],
     condition_icon |-> w["condition_icon"],
     wind_kph |-> w["wind_kph"],
     humidity |-> w["humidity"],
     is_day |-> w["is_day"],
     precip_mm |-> w["precip_mm"],
     daily_forecast |-> w["forecast_days"],
     alerts_summary |-> w["alerts_summary"],
     raw_response |-> w["raw"],
     fetched_at |-> "now",
     updated_at |-> "now"]

\* w[k] on a record that lacks k raises KeyError
RaisesKeyError(w) == ~(RowReadKeys \subseteq DOMAIN w)

\* Where control goes when a writer returns or raises: back into main()
\* (main.py:103-105) or to the caller that invoked the writer on its own.
AfterUpsertWeather == IF entry = "main" THEN "ua_collect" ELSE "returned"
AfterUpsertAlerts == IF entry = "main" THEN "advance" ELSE "returned"
AfterRaise_swallowed == IF entry = "main" THEN "advance" ELSE "raised"
AfterRaise == IF entry = "main" THEN "crashed" ELSE "raised"

\* The window a store call belongs to (0 when the writer runs on its own).
Window == IF entry = "main" THEN batch_num ELSE 0

\* supabase_client.py:69-96  build the rows. The loop is outside any try: a
\* KeyError leaves the function, and in main() nothing catches it.
BuildRows ==
    /\ pc = "uwb_build"
    /\ IF \E k \in 1..Len(weather_results) : RaisesKeyError(weather_results[k])
       THEN /\ pc' = AfterRaise
            /\ UNCHANGED <<rows, chunk_i, upserted, retval>>
       ELSE /\ rows' = [k \in 1..Len(weather_results) |-> BuildRow(weather_results[k])]
            /\ chunk_i' = 0
            /\ upserted' = 0
            /\ IF rows' = <<>>
               THEN /\ retval' = Some(0)
                    /\ pc' = AfterUpsertWeather
               ELSE /\ retval' = None
                    /\ pc' = "uwb_chunk"
    /\ UNCHANGED <<envVars, mainVars, weather_results, alert_rows, to_delete,
                   inserted, storeVars>>

\* supabase_client.py:103-105  the count after one chunk
UpsertedAfter_always(count, chunk, ok) == count + Len(chunk)
UpsertedAfter(count, chunk, ok) == IF ok THEN count + Len(chunk) ELSE count

\* upsert(chunk, on_conflict="ward_code"): rows with a chunk's ward_code are
\* replaced, the others are added.
Upsert(table, chunk) ==
    LET codes == {chunk[k].ward_code : k \in 1..Len(chunk)}
    IN {r \in table : r.ward_code \notin codes} \cup {chunk[k] : k \in 1..Len(chunk)}

\* supabase_client.py:97-107  one iteration of the chunk loop: the upsert call
\* succeeds or raises (caught and logged); after the last chunk the count is
\* returned.
UpsertChunk(ok) ==
    /\ pc = "uwb_chunk"
    /\ LET chunk == Slice(rows, chunk_i, chunk_size)
       IN /\ weather_cache' = IF ok THEN Upsert(weather_cache, chunk) ELSE weather_cache
          /\ upserted' = UpsertedAfter(upserted, chunk, ok)
          /\ store_log' = Append(store_log,
                 [op |-> "upsert", ok |-> ok, n |-> Len(chunk), window |-> Window,
                  codes |-> {chunk[k].ward_code : k \in 1..Len(chunk)}])
    /\ chunk_i' = chunk_i + chunk_size
    /\ IF chunk_i' >= Len(rows)
       THEN /\ retval' = Some(upserted')
            /\ pc' = AfterUpsertWeather
       ELSE UNCHANGED <<retval, pc>>
    /\ UNCHANGED <<envVars, mainVars, weather_results, rows, alert_rows, to_delete,
                   inserted, weather_alerts>>

\* ----------------------------------------------------------- upsert_alerts
\* supabase_client.py:126-139
AlertRow(ward_code, alert) ==
    LET get(k) == IF k \in DOMAIN alert THEN alert[k] ELSE None
    IN [ward_code |-> ward_code,
        event |-> get("event"),
        headline |-> get("headline"),
        description |-> get("description"),
        severity |-> get("severity"),
        urgency |-> get("urgency"),
        areas |-> get("areas"),
        category |-> get("category"),
        certainty |-> get("certainty"),
        instruction |-> get("instruction"),
        effective |-> get("effective"),
        expires |-> get("expires")]

\* supabase_client.py:121  w.get("alerts") is truthy
HasAlerts(w) == GetOr(w, "alerts", <<>>) # <<>>

\* supabase_client.py:120-139
RECURSIVE AlertRows(_)
AlertRows(ws) ==
    IF ws = <<>> THEN <<>>
    ELSE LET w == Head(ws)
         IN (IF HasAlerts(w)
             THEN [j \in 1..Len(w["alerts"]) |-> AlertRow(w["ward_code"], w["alerts"][j])]
             ELSE <<>>) \o AlertRows(Tail(ws))

\* supabase_client.py:118-124
WardCodesWithAlerts_all(ws) == {ws[k]["ward_code"] : k \in 1..Len(ws)}
WardCodesWithAlerts(ws) ==
    {ws[k]["ward_code"] : k \in {j \in 1..Len(ws) : HasAlerts(ws[j])}}

\* supabase_client.py:117-145
CollectAlerts ==
    /\ pc = "ua_collect"
    /\ alert_rows' = AlertRows(weather_results)
    /\ chunk_i' = 0
    /\ inserted' = 0
    /\ IF alert_rows' = <<>>
       THEN /\ retval' = Some(0)
            /\ pc' = AfterUpsertAlerts
            /\ UNCHANGED to_delete
       ELSE /\ retval' = None
            /\ pc' = "ua_delete"
            /\ to_delete' = WardCodesWithAlerts(weather_results)
    /\ UNCHANGED <<envVars, mainVars, weather_results, rows, upserted, storeVars>>

\* supabase_client.py:147-149  delete().eq("ward_code", ward_code)
DeleteByWardCode_none(table, code) == table
DeleteByWardCode(table, code) == SelectSeq(table, LAMBDA r : r.ward_code # code)

\* supabase_client.py:161-163  except Exception: log, return 0
OnAlertException_partial == Some(inserted)
OnAlertException == Some(0)

\* supabase_client.py:146-149, :161-163  one delete of the loop over the set
\* of ward codes (a set: the order is not fixed); an exception ends the call
\* with 0.
DeleteAlerts(code, ok) ==
    /\ pc = "ua_delete"
    /\ code \in to_delete
    /\ store_log' = Append(store_log,
           [op |-> "delete", ok |-> ok, n |-> 0, window |-> Window, codes |-> {code}])
    /\ IF ok
       THEN /\ weather_alerts' = DeleteByWardCode(weather_alerts, code)
            /\ to_delete' = to_delete \ {code}
            /\ pc' = IF to_delete' = {} THEN "ua_insert" ELSE "ua_delete"
            /\ UNCHANGED retval
       ELSE /\ retval' = OnAlertException
            /\ pc' = AfterUpsertAlerts
            /\ UNCHANGED <<weather_alerts, to_delete>>
    /\ UNCHANGED <<envVars, mainVars, weather_results, rows, chunk_i, upserted,
                   alert_rows, inserted, weather_cache>>

\* supabase_client.py:152-163  one iteration of the insert loop
InsertAlerts(ok) ==
    /\ pc = "ua_insert"
    /\ LET chunk == Slice(alert_rows, chunk_i, chunk_size)
       IN /\ store_log' = Append(store_log,
                 [op |-> "insert", ok |-> ok, n |-> Len(chunk), window |-> Window,
                  codes |-> {chunk[k].ward_code : k \in 1..Len(chunk)}])
          /\ IF ok
             THEN /\ weather_alerts' = weather_alerts \o chunk
                  /\ inserted' = inserted + Len(chunk)
                  /\ chunk_i' = chunk_i + chunk_size
                  /\ IF chunk_i' >= Len(alert_rows)
                     THEN /\ retval' = Some(inserted')
                          /\ pc' = AfterUpsertAlerts
                     ELSE UNCHANGED <<retval, pc>>
             ELSE /\ retval' = OnAlertException
                  /\ pc' = AfterUpsertAlerts
                  /\ UNCHANGED <<weather_alerts, inserted, chunk_i>>
    /\ UNCHANGED <<envVars, mainVars, weather_results, rows, upserted, alert_rows,
                   to_delete, weather_cache>>

\* ------------------------------------------- main(): throttle and summary
\* main.py:108-109  the inter-window sleep, then the next loop iteration
Throttle ==
    /\ entry = "main" /\ pc = "advance"
    /\ delay_ms > 0 /\ batch_end < total_wards
    /\ throttle_sleeps' = throttle_sleeps + 1
    /\ batch_start' = batch_start + batch_size
    /\ pc' = "loop"
    /\ UNCHANGED <<envVars, wards, semaphore, tasks, batch_end, batch_results,
                   all_results, failed_count, dataset, writerVars, storeVars>>

\* main.py:108, :70  no sleep: straight to the next loop iteration
NextBatch ==
    /\ entry = "main" /\ pc = "advance"
    /\ ~(delay_ms > 0 /\ batch_end < total_wards)
    /\ batch_start' = batch_start + batch_size
    /\ pc' = "loop"
    /\ UNCHANGED <<envVars, wards, semaphore, tasks, batch_end, batch_results,
                   all_results, failed_count, throttle_sleeps, dataset,
                   writerVars, storeVars>>

\* main.py:113-119  (the wall-clock fields elapsed_seconds and
\* wards_per_second are left out)
Summary ==
    [total_wards |-> total_wards,
     successful |-> Len(all_results),
     failed |-> failed_count]

\* main.py:70, :112-124  the loop is exhausted: build and push the summary
PushSummary ==
    /\ entry = "main" /\ pc = "loop"
    /\ batch_start >= total_wards
    /\ dataset' = Append(dataset, Summary)
    /\ pc' = "done"
    /\ UNCHANGED <<envVars, wards, semaphore, tasks, batch_start, batch_end,
                   batch_results, all_results, failed_count, throttle_sleeps,
                   writerVars, storeVars>>

\* ------------------------------------------------------------ specification
Next ==
    \/ ValidateEnv
    \/ GetWards
    \/ StartBatch
    \/ \E i \in DOMAIN tasks : Acquire(i)
    \/ \E i \in DOMAIN tasks, outcome \in Outcomes, data \in Payloads :
          Attempt(i, outcome, data)
    \/ \E i \in DOMAIN tasks : Wake(i)
    \/ CollectResults
    \/ BuildRows
    \/ \E ok \in BOOLEAN : UpsertChunk(ok)
    \/ CollectAlerts
    \/ \E code \in to_delete, ok \in BOOLEAN : DeleteAlerts(code, ok)
    \/ \E ok \in BOOLEAN : InsertAlerts(ok)
    \/ Throttle
    \/ NextBatch
    \/ PushSummary

Spec == Init /\ [][Next]_vars

\* The event loop runs every step that is ready: the run does not stop while
\* a step is enabled.
FairSpec == Spec /\ WF_vars(Next)

\* ================================================================== claims
Last(seq) == seq[Len(seq)]

\* The fetch calls that hold a permit: past the acquire, not yet returned.
PermitHolders == {i \in DOMAIN tasks : tasks[i].pc \in {"request", "sleep"}}

\* The fetch calls that have been started.
Started == {i \in DOMAIN tasks : tasks[i].pc # "idle"}

\* The fetch calls that returned None.
Failed(S) == {i \in S : tasks[i].pc = "done" /\ tasks[i].result = None}

\* The wards of the windows whose gather has returned.
Collected == 1..(IF pc = "gather" THEN batch_start ELSE batch_end)

\* The window (0-based) of ward index i for the configured window size.
WindowOf(i) == (i - 1) \div raw_input.batchSize

\* C1: with configured window size W, at most W fetch_ward_weather calls hold
\* a permit (requests and backoff sleeps included) in every state of a run.
C1_AtMostWPermitHolders ==
    entry = "main" => Cardinality(PermitHolders) <= raw_input.batchSize

\* C1 witness: W = 2 calls hold a permit at once, one of them in its backoff
\* sleep, in a run of more than W wards.
C1_Witness ==
    /\ entry = "main"
    /\ raw_input.batchSize = 2
    /\ total_wards > 2
    /\ Cardinality(PermitHolders) = 2
    /\ \E i \in PermitHolders : tasks[i].pc = "sleep"

\* C2: whatever the provider answers, one fetch_ward_weather call issues at
\* most 3 requests and returns one result: a record of its ward after a 200
\* (which is always its last request), None otherwise; it has no result before
\* it returns.
C2_AtMostThreeRequestsOneResult ==
    \A i \in DOMAIN tasks :
        LET t == tasks[i]
        IN /\ Len(t.responses) <= 3
           /\ \A k \in 1..(Len(t.responses) - 1) : t.responses[k] # "200"
           /\ t.pc # "done" => t.result = None
           /\ t.pc = "done" =>
                /\ Len(t.responses) >= 1
                /\ IF Last(t.responses) = "200"
                   THEN /\ t.result # None
                        /\ t.result[1]["ward_code"] = wards[i]["ward_code"]
                   ELSE t.result = None

\* C2 witness: a call that used all 3 requests and returned a record, next to
\* a call that used all 3 and returned None.
C2_Witness ==
    \E i, j \in DOMAIN tasks :
        /\ tasks[i].pc = "done" /\ Len(tasks[i].responses) = 3
        /\ tasks[i].result # None
        /\ tasks[j].pc = "done" /\ Len(tasks[j].responses) = 3
        /\ tasks[j].result = None

\* C3: a call whose responses are 429, 429, 200 has slept 2 s after the first
\* and 4 s after the second and nothing else, and has returned a record; on
\* the way there it has slept 2 s after the first 429.
C3_BackoffTwoThenFour ==
    \A i \in DOMAIN tasks :
        LET t == tasks[i]
        IN /\ t.responses = <<"429", "429", "200">> =>
                /\ t.pc = "done"
                /\ t.sleeps = <<2, 4>>
                /\ t.result # None
           /\ t.responses = <<"429">> => t.sleeps = <<2>>
           /\ t.responses = <<"429", "429">> => t.sleeps = <<2, 4>>

\* C3 witness: a call that saw 429, 429, 200 and returned.
C3_Witness ==
    \E i \in DOMAIN tasks :
        /\ tasks[i].responses = <<"429", "429", "200">>
        /\ tasks[i].pc = "done"

\* C4: a response status other than 200 and 429 ends the call at once with
\* None: it is the call's last request, on whichever attempt it arrives, and
\* no backoff sleep follows it (the sleeps are those of the earlier attempts).
C4_OtherStatusFailsImmediately ==
    \A i \in DOMAIN tasks :
        LET t == tasks[i]
        IN \A k \in 1..Len(t.responses) :
              t.responses[k] = "other" =>
                /\ k = Len(t.responses)
                /\ t.pc = "done"
                /\ t.result = None
                /\ t.attempt = k - 1
                /\ Len(t.sleeps) = k - 1

\* C4 witness: three calls ended by such a status on their 1st, 2nd and 3rd
\* attempt.
C4_Witness ==
    \E i, j, k \in DOMAIN tasks :
        /\ tasks[i].responses = <<"other">>
        /\ Len(tasks[j].responses) = 2 /\ Last(tasks[j].responses) = "other"
        /\ Len(tasks[k].responses) = 3 /\ Last(tasks[k].responses) = "other"

\* A ward whose 3 attempts all ended in a transport error or timeout.
Exhausted(i) == tasks[i].responses = <<"error", "error", "error">>

\* The write calls of the store log that carry rows of ward code c.
WritesFor(c) ==
    {k \in 1..Len(store_log) :
        store_log[k].op \in {"upsert", "insert"} /\ c \in store_log[k].codes}

C6_RecordHoldsEveryFieldTheWriterReads ==
    entry = "main" =>
        /\ \A i \in DOMAIN tasks :
              tasks[i].result # None =>
                  RowReadKeys \subseteq DOMAIN tasks[i].result[1]
        /\ pc # "crashed"

\* C7: a run that passed start-up validation with a non-empty ward list never
\* stops before the last window: it does not end on an exception, and when it
\* is over every window has been processed and exactly one summary is pushed.
C7_RunReachesItsSummary ==
    (entry = "main" /\ wards # <<>>) =>
        /\ pc # "crashed"
        /\ pc = "done" => (Len(dataset) = 1 /\ batch_end = total_wards)
        /\ pc # "done" => dataset = <<>>

\* C8: when the run is over, ceil(N/W) windows have been processed and the
\* summary has total_wards = N, failed = F, successful = N - F, F the number
\* of wards whose fetch failed; after each window successful + failed is the
\* number of wards of the windows processed so far.
C8_WindowsAndSummaryTotals ==
    (entry = "main" /\ wards # <<>>) =>
        /\ pc \notin {"start", "get_wards", "gather"} =>
              Len(all_results) + failed_count = Cardinality(Collected)
        /\ pc \in {"done", "crashed"} =>
              /\ Collected = DOMAIN tasks
              /\ \A i \in DOMAIN tasks : tasks[i].pc = "done"
              /\ dataset = << [total_wards |-> total_wards,
                               successful |-> total_wards
                                              - Cardinality(Failed(DOMAIN tasks)),
                               failed |-> Cardinality(Failed(DOMAIN tasks))] >>

\* The upsert calls of the store log that carry the row of ward code c for
\* window w.
UpsertsFor(c, w) ==
    {k \in 1..Len(store_log) :
        /\ store_log[k].op = "upsert"
        /\ c \in store_log[k].codes
        /\ store_log[k].window = w}

RECURSIVE SumOk(_)
SumOk(log) ==
    IF log = <<>> THEN 0
    ELSE (IF Head(log).ok THEN Head(log).n ELSE 0) + SumOk(Tail(log))

\* C10: when upsert_weather_batch returns, every chunk of the rows has been
\* attempted whatever failed before it, the returned count is the sum of the
\* sizes of the chunks whose upsert succeeded, every row of a chunk that
\* succeeded is in the table, and no row of a chunk that failed is.
C10_ChunkFailureIsLocal ==
    (entry = "upsert_weather_batch" /\ pc = "returned") =>
        LET nchunks == (Len(rows) + chunk_size - 1) \div chunk_size
            chunk(k) == Slice(rows, (k - 1) * chunk_size, chunk_size)
        IN /\ Len(store_log) = nchunks
           /\ retval = Some(SumOk(store_log))
           /\ \A k \in 1..nchunks :
                 /\ store_log[k].op = "upsert"
                 /\ store_log[k].n = Len(chunk(k))
                 /\ store_log[k].codes =
                       {chunk(k)[m].ward_code : m \in 1..Len(chunk(k))}
                 /\ \A m \in 1..Len(chunk(k)) :
                       IF store_log[k].ok
                       THEN chunk(k)[m] \in weather_cache
                       ELSE /\ chunk(k)[m] \notin weather_cache
                            /\ WardRow(chunk(k)[m].ward_code) \in weather_cache

\* C10 witness: the call returned after a first chunk that failed and a
\* second chunk that succeeded.
C10_Witness ==
    /\ entry = "upsert_weather_batch"
    /\ pc = "returned"
    /\ Len(store_log) = 2
    /\ ~store_log[1].ok
    /\ store_log[2].ok

\* The rows of an alert table that belong to ward code c, in table order.
RowsOf(table, c) == SelectSeq(table, LAMBDA r : r.ward_code = c)

\* The ward codes of the batch whose record has at least one alert.
BatchCodesWithAlerts ==
    {weather_results[k]["ward_code"] :
        k \in {j \in 1..Len(weather_results) : Len(weather_results[j]["alerts"]) > 0}}

\* The ward codes of the batch.
BatchCodes == {weather_results[k]["ward_code"] : k \in 1..Len(weather_results)}

\* The record of the batch for ward code c.
RecordOf(c) ==
    weather_results[CHOOSE k \in 1..Len(weather_results) :
                        weather_results[k]["ward_code"] = c]

\* The stored rows of ward code c are the alerts of its record, field by field.
StoredAlertsAreCurrent(c) ==
    LET stored == RowsOf(weather_alerts, c)
        current == RecordOf(c)["alerts"]
    IN /\ Len(stored) = Len(current)
       /\ \A j \in 1..Len(stored) :
             \A f \in DOMAIN current[j] : stored[j][f] = current[j][f]

\* Every store call of the log succeeded.
AllOk == \A k \in 1..Len(store_log) : store_log[k].ok

\* C11: in upsert_alerts an insert is only issued after the delete of every
\* ward of the batch that has an alert has been issued and has succeeded; and
\* when the call returns with no store call having raised, the alerts stored
\* for each such ward are exactly the alerts of its current record.
C11_DeleteThenInsertReplacesAlerts ==
    entry = "upsert_alerts" =>
        /\ \A k \in 1..Len(store_log) :
              store_log[k].op = "insert" =>
                 \A c \in BatchCodesWithAlerts :
                    \E q \in 1..(k - 1) :
                       /\ store_log[q].op = "delete"
                       /\ store_log[q].codes = {c}
                       /\ store_log[q].ok
        /\ (pc = "returned" /\ AllOk) =>
              \A c \in BatchCodesWithAlerts : StoredAlertsAreCurrent(c)

\* C11 witness: the call returned without an exception for a batch in which
\* ward 1 has an alert; the table held an older alert of ward 1 (it was loaded
\* together with the one of ward 2, which is still there) and no longer does.
C11_Witness ==
    /\ entry = "upsert_alerts"
    /\ pc = "returned"
    /\ AllOk
    /\ 1 \in BatchCodesWithAlerts
    /\ 2 \notin BatchCodesWithAlerts
    /\ RowsOf(weather_alerts, 2) = <<StaleAlert(2)>>
    /\ \E k \in 1..Len(store_log) : store_log[k].op = "insert"

\* C12: no step changes the stored alerts of a ward that is not in the batch
\* or whose record in the batch has no alert: such a ward keeps exactly the
\* alert rows it had.
C12_WardsWithoutAlertsUntouched ==
    [][\A c \in {weather_alerts[k].ward_code : k \in 1..Len(weather_alerts)}
               \cup {weather_alerts'[k].ward_code : k \in 1..Len(weather_alerts')} :
          c \notin BatchCodesWithAlerts =>
             RowsOf(weather_alerts', c) = RowsOf(weather_alerts, c)]_vars

\* C12 witness: upsert_alerts returned after deleting and inserting alerts of
\* another ward, and ward 1, in the batch with no alert, still has the alert
\* row an earlier run stored.
C12_Witness ==
    /\ entry = "upsert_alerts"
    /\ pc = "returned"
    /\ 1 \in BatchCodes \ BatchCodesWithAlerts
    /\ RowsOf(weather_alerts, 1) = <<StaleAlert(1)>>
    /\ \E k \in 1..Len(store_log) : store_log[k].op = "delete" /\ store_log[k].ok
    /\ \E k \in 1..Len(store_log) : store_log[k].op = "insert" /\ store_log[k].ok

\* A store call issued by upsert_alerts.
IsAlertCall(e) == e.op \in {"delete", "insert"}

C14_SleepsArePrefixOfTwoFour ==
    \A i \in DOMAIN tasks :
        LET t == tasks[i]
        IN /\ t.sleeps \in {<<>>, <<2>>, <<2, 4>>}
           /\ Len(t.responses) = 3 => Len(t.sleeps) = 2

\* C15: every call that is past its acquire and has not returned holds one
\* permit, and nobody else does: free permits plus such calls make the window
\* size in every state, through all attempts and backoff sleeps and after every
\* kind of return; no request is issued before the acquire; and whenever the
\* window's calls have all returned the free permits are the window size.
C15_OnePermitPerCallAlwaysReleased ==
    (entry = "main" /\ wards # <<>>) =>
        /\ semaphore + Cardinality(PermitHolders) = raw_input.batchSize
        /\ \A i \in DOMAIN tasks :
              tasks[i].pc \in {"idle", "acquire"} => tasks[i].responses = <<>>
        /\ (\A i \in DOMAIN tasks : tasks[i].pc \in {"idle", "done"}) =>
              semaphore = raw_input.batchSize

\* C15 witness: with 2 permits, the calls of two windows have returned on each
\* exit path (a non-retryable status, exhausted retries, a 200) and both
\* permits are free.
C15_Witness ==
    /\ entry = "main"
    /\ raw_input.batchSize = 2
    /\ total_wards = 3
    /\ \A i \in DOMAIN tasks : tasks[i].pc = "done"
    /\ Last(tasks[1].responses) = "other"
    /\ Len(tasks[2].responses) = 3 /\ tasks[2].result = None
    /\ Last(tasks[3].responses) = "200"
    /\ semaphore = 2

\* The ward codes of the window being processed.
CurrentWindowCodes == {wards[i]["ward_code"] : i \in Batch}

\* The records main() holds: all_results and batch_results.
HeldCodes ==
    {all_results[k]["ward_code"] : k \in 1..Len(all_results)}
    \cup {batch_results[k]["ward_code"] : k \in 1..Len(batch_results)}

C17_EachWardFetchedExactlyOnce ==
    /\ []((entry = "main" /\ pc = "done") =>
            \A i \in 1..total_wards :
                /\ i \in DOMAIN tasks
                /\ tasks[i].pc = "done"
                /\ tasks[i].responses # <<>>)
    /\ [][\A i \in DOMAIN tasks :
             (tasks'[i].pc = "acquire" /\ tasks[i].pc # "acquire") =>
                 tasks[i].pc = "idle"]_vars

\* C17 witness: a run of 3 wards with window size 2 (a last window of one
\* ward) has completed.
C17_Witness ==
    /\ entry = "main"
    /\ pc = "done"
    /\ total_wards = 3
    /\ raw_input.batchSize = 2

\* The alert rows the insert calls of the log put into the store.
RowsInserted == SumOk(SelectSeq(store_log, LAMBDA e : e.op = "insert"))

\* C18: the count upsert_alerts returns is the number of alert rows the call
\* inserted into the store, on every path.
C18_ReturnedCountIsRowsInserted ==
    (entry = "upsert_alerts" /\ pc = "returned") => retval = Some(RowsInserted)

\* The ward codes whose weather row an upsert call put into the store.
UpsertedCodes ==
    UNION {store_log[k].codes :
             k \in {j \in 1..Len(store_log) :
                       store_log[j].op = "upsert" /\ store_log[j].ok}}

C20_AcquireNeverWaits ==
    entry = "main" =>
        \A i \in DOMAIN tasks : tasks[i].pc = "acquire" => semaphore > 0

\* C20 witness: in a full window of 2 calls, one call holds its permit in a
\* backoff sleep, the other is at its acquire, and the last permit is free.
C20_Witness ==
    /\ entry = "main"
    /\ raw_input.batchSize = 2
    /\ batch_end - batch_start = 2
    /\ semaphore = 1
    /\ \E i, j \in Batch :
          /\ tasks[i].pc = "sleep"
          /\ tasks[j].pc = "acquire"

====
